---- MODULE Spec2Model ----
(***************************************************************************)
(* Order-statistic interval solvers of Monaco/order_statistics.py.         *)
(*                                                                         *)
(* Every public function is a call that starts in the "idle" state; its    *)
(* validation and feasibility pre-check are one action, and each iteration *)
(* of its bisection loop is one further action.  Probabilities are exact   *)
(* rationals <<numerator, denominator>>; the binomial CDF is computed      *)
(* exactly, so a comparison of a coverage with c is the comparison the     *)
(* source makes on the real values (the inputs are dyadic, hence exact in  *)
(* binary floating point; rounding inside the library's binomial CDF is    *)
(* not modelled).                                                          *)
(***************************************************************************)
EXTENDS Integers, Sequences, FiniteSets, TLC

\* pc      "idle" before the call, "loop" inside its bisection loop, "done" after it
\* fn      the function called
\* args    its arguments, a record
\* br      the bisection bracket <<lo, hi>> (n, p or k of the source)
\* i       the loop index of `for i in range(maxsteps)`
\* result  what the call returned or raised: kind is "number", "None",
\*         "ValueError" (the validator), "UnboundLocalError" (a local left
\*         unbound by an unrecognised bound) or "ConvergeError" (the
\*         ValueError raised after maxsteps iterations)
\* evals   the number of calls of EPTI / EPYP made so far
\* idx     the <<n, l, u>> of the last call of EPTI / EPYP
VARIABLES pc, fn, args, br, i, result, evals, idx

vars == <<pc, fn, args, br, i, result, evals, idx>>

\* Largest sample size n a call is made with.
MaxN == 7
\* Largest search limit nmax a call is made with.
MaxNmax == 14
\* Largest order-statistic offset k a call is made with.
MaxK == 3
\* maxsteps = 1000 in every bisection loop.
maxsteps == 1000

\* The probabilities p, P and the confidences c calls are made with
\* (0 and 1 are the invalid end points).
PGrid == {<<0, 1>>, <<1, 4>>, <<1, 2>>, <<3, 4>>, <<1, 1>>}
CGrid == {<<0, 1>>, <<1, 8>>, <<1, 2>>, <<7, 8>>, <<1, 1>>}
\* Tolerances ptol of order_stat_TI_p.
PtolGrid == {<<1, 2>>, <<1, 10>>}
\* Sigma values of sig2pct (symbolic: the normal CDF is a library primitive).
SigGrid == {-3, 0, 3}
\* The bound selectors; "other" is a value no function recognises.
BoundGrid == {"2-sided", "1-sided", "1-sided upper", "1-sided lower", "other"}

----------------------------------------------------------------------------
\* Integer and rational helpers.

Max(a, b) == IF a >= b THEN a ELSE b
Min(a, b) == IF a <= b THEN a ELSE b

RECURSIVE Pow(_, _)
Pow(b, e) == IF e <= 0 THEN 1 ELSE b * Pow(b, e - 1)

RECURSIVE Choose(_, _)
Choose(n, j) == IF j <= 0 THEN 1 ELSE (Choose(n, j - 1) * (n - j + 1)) \div j

FloorDiv(a, b) == a \div b
CeilDiv(a, b) == -((-a) \div b)

\* floor(c * den) and ceil(c * den) for a rational c in [0, 1], without forming c[1] * den.
CFloor(c, den) == c[1] * (den \div c[2]) + (c[1] * (den % c[2])) \div c[2]
CCeil(c, den) == CFloor(c, den) + (IF (c[1] * (den % c[2])) % c[2] = 0 THEN 0 ELSE 1)

\* Comparisons of a coverage cov = <<num, den>> with a confidence c.
CovGt(cov, c) == cov[1] > CFloor(c, cov[2])
CovGe(cov, c) == cov[1] >= CCeil(c, cov[2])
CovLt(cov, c) == ~CovGe(cov, c)
CovLe(cov, c) == ~CovGt(cov, c)

\* scipy.stats.binom.cdf(x, n, p) as the numerator over p[2]^n.
RECURSIVE BinomSum(_, _, _)
BinomSum(x, n, p) ==
    IF x < 0 THEN 0
    ELSE Choose(n, x) * Pow(p[1], x) * Pow(p[2] - p[1], n - x) + BinomSum(x - 1, n, p)

binom_cdf(x, n, p) ==
    IF x < 0 THEN 0
    ELSE IF x >= n THEN Pow(p[2], n)
    ELSE BinomSum(x, n, p)

----------------------------------------------------------------------------
\* The validator without its test of k.
order_stat_var_check_no_k(a) ==
    \/ ("n" \in DOMAIN a /\ a.n < 1)
    \/ ("l" \in DOMAIN a /\ a.l < 0)
    \/ ("u" \in DOMAIN a /\ "n" \in DOMAIN a /\ a.u > a.n + 1)
    \/ ("u" \in DOMAIN a /\ "l" \in DOMAIN a /\ a.u < a.l)
    \/ ("p" \in DOMAIN a /\ (a.p[1] <= 0 \/ a.p[1] >= a.p[2]))
    \/ ("c" \in DOMAIN a /\ (a.c[1] <= 0 \/ a.c[1] >= a.c[2]))
    \/ ("nmax" \in DOMAIN a /\ a.nmax < 1)

\* order_stat_var_check: TRUE when the validator raises ValueError for the
\* supplied keyword arguments (a record holding only the supplied ones).
order_stat_var_check(a) ==
    \/ ("n" \in DOMAIN a /\ a.n < 1)
    \/ ("l" \in DOMAIN a /\ a.l < 0)
    \/ ("u" \in DOMAIN a /\ "n" \in DOMAIN a /\ a.u > a.n + 1)
    \/ ("u" \in DOMAIN a /\ "l" \in DOMAIN a /\ a.u < a.l)
    \/ ("p" \in DOMAIN a /\ (a.p[1] <= 0 \/ a.p[1] >= a.p[2]))
    \/ ("k" \in DOMAIN a /\ a.k < 1)
    \/ ("c" \in DOMAIN a /\ (a.c[1] <= 0 \/ a.c[1] >= a.c[2]))
    \/ ("nmax" \in DOMAIN a /\ a.nmax < 1)

\* EPTI / EPYP after their validation: the coverage as <<numerator, denominator>>.
EPTI(n, l, u, p) == <<binom_cdf(u - l - 1, n, p), Pow(p[2], n)>>
EPYP(n, l, u, p) == <<binom_cdf(u - 1, n, p) - binom_cdf(l - 1, n, p), Pow(p[2], n)>>

\* get_iP: (floor, round-half-to-even, ceil) of P * (n + 1).
get_iP(n, P) ==
    LET num == P[1] * (n + 1)
        fl == FloorDiv(num, P[2])
        ce == CeilDiv(num, P[2])
        twice == 2 * (num % P[2])
        rd == IF twice < P[2] THEN fl
              ELSE IF twice > P[2] THEN ce
              ELSE IF fl % 2 = 0 THEN fl ELSE ce
    IN <<fl, rd, ce>>

----------------------------------------------------------------------------
\* Outcomes of a call or of a loop iteration.

NoIdx == <<>>
NoBr == <<>>
Pending == [kind |-> "pending", val |-> 0]

\* The call raised `exc` after `e` coverage evaluations, the last with indices ix.
Raise(exc, e, ix) ==
    [pc |-> "done", br |-> NoBr, result |-> [kind |-> exc, val |-> 0], evals |-> e, idx |-> ix]
\* The call returned the number v / the sentinel None.
Return(v, e, ix) ==
    [pc |-> "done", br |-> NoBr, result |-> [kind |-> "number", val |-> v], evals |-> e, idx |-> ix]
ReturnNone(e, ix) ==
    [pc |-> "done", br |-> NoBr, result |-> [kind |-> "None", val |-> 0], evals |-> e, idx |-> ix]
\* The call goes on with the bracket b.
Continue(b, e, ix) ==
    [pc |-> "loop", br |-> b, result |-> Pending, evals |-> e, idx |-> ix]

\* ntemp = lo + np.ceil((hi - lo) / 2), for hi - lo >= 2.
Candidate(lo, hi) == lo + CeilDiv(hi - lo, 2)

TIBounds == {"2-sided", "1-sided"}
PBounds == {"2-sided", "1-sided upper", "1-sided lower"}

----------------------------------------------------------------------------
\* order_stat_TI_n up to the loop: validation and the pre-check at nmax.
TI_n_entry(a) ==
    IF order_stat_var_check([p |-> a.p, k |-> a.k, c |-> a.c, nmax |-> a.nmax])
    THEN Raise("ValueError", 0, NoIdx)
    ELSE IF a.bound \notin TIBounds THEN Raise("UnboundLocalError", 0, NoIdx)
    ELSE LET l == IF a.bound = "2-sided" THEN a.k ELSE 0
             u == a.nmax + 1 - a.k
             ix == <<a.nmax, l, u>>
         IN IF order_stat_var_check([n |-> a.nmax, l |-> l, u |-> u, p |-> a.p])
            THEN Raise("ValueError", 1, ix)
            ELSE IF CovLt(EPTI(a.nmax, l, u, a.p), a.c) THEN ReturnNone(1, ix)
            ELSE Continue(<<1, a.nmax>>, 1, ix)

\* One iteration of the loop of order_stat_TI_n.
TI_n_iter(a, b, e) ==
    IF b[2] - b[1] < 2 THEN Return(b[2], e, idx)
    ELSE LET ntemp == Candidate(b[1], b[2])
             l == IF a.bound = "2-sided" THEN a.k ELSE 0
             u == ntemp + 1 - a.k
             ix == <<ntemp, l, u>>
         IN IF order_stat_var_check([n |-> ntemp, l |-> l, u |-> u, p |-> a.p])
            THEN Raise("ValueError", e + 1, ix)
            ELSE IF CovLe(EPTI(ntemp, l, u, a.p), a.c)
                 THEN Continue(<<ntemp, b[2]>>, e + 1, ix)
                 ELSE Continue(<<b[1], ntemp>>, e + 1, ix)

\* order_stat_TI_c: direct evaluation; the value is the coverage.
TI_c_entry(a) ==
    IF order_stat_var_check([n |-> a.n, p |-> a.p, k |-> a.k])
    THEN Raise("ValueError", 0, NoIdx)
    ELSE IF a.bound \notin TIBounds THEN Raise("UnboundLocalError", 0, NoIdx)
    ELSE LET l == IF a.bound = "2-sided" THEN a.k ELSE 0
             u == a.n + 1 - a.k
             ix == <<a.n, l, u>>
         IN IF order_stat_var_check([n |-> a.n, l |-> l, u |-> u, p |-> a.p])
            THEN Raise("ValueError", 1, ix)
            ELSE Return(EPTI(a.n, l, u, a.p), 1, ix)

\* order_stat_TI_p up to the loop: validation only (l is bound, or left unbound, here).
TI_p_entry(a) ==
    IF order_stat_var_check([n |-> a.n, k |-> a.k, c |-> a.c])
    THEN Raise("ValueError", 0, NoIdx)
    ELSE Continue(<<<<0, 1>>, <<1, 1>>>>, 0, NoIdx)

\* step <= ptol for step = (p[1] - p[0]) / 2; lo and hi have the same denominator.
StepWithinTol(lo, hi, ptol) == (hi[1] - lo[1]) * ptol[2] <= ptol[1] * 2 * lo[2]
\* ptemp = p[0] + step.
PTemp(lo, hi) == <<lo[1] + hi[1], 2 * lo[2]>>
\* The same number over twice the denominator.
Refine(q) == <<2 * q[1], 2 * q[2]>>

\* One iteration of the loop of order_stat_TI_p.
TI_p_iter(a, b, e) ==
    IF StepWithinTol(b[1], b[2], a.ptol) THEN Return(b[2], e, idx)
    ELSE IF a.bound \notin TIBounds THEN Raise("UnboundLocalError", e, idx)
    ELSE LET ptemp == PTemp(b[1], b[2])
             l == IF a.bound = "2-sided" THEN a.k ELSE 0
             u == a.n + 1 - a.k
             ix == <<a.n, l, u>>
         IN IF order_stat_var_check([n |-> a.n, l |-> l, u |-> u, p |-> ptemp])
            THEN Raise("ValueError", e + 1, ix)
            ELSE IF CovGe(EPTI(a.n, l, u, ptemp), a.c)
                 THEN Continue(<<ptemp, Refine(b[2])>>, e + 1, ix)
                 ELSE Continue(<<Refine(b[1]), ptemp>>, e + 1, ix)

\* order_stat_TI_k up to the loop: validation and the pre-check at k = 1.
TI_k_entry(a) ==
    IF order_stat_var_check([n |-> a.n, p |-> a.p, c |-> a.c])
    THEN Raise("ValueError", 0, NoIdx)
    ELSE IF a.bound \notin TIBounds THEN Raise("UnboundLocalError", 0, NoIdx)
    ELSE LET l == IF a.bound = "2-sided" THEN 1 ELSE 0
             ix == <<a.n, l, a.n>>
         IN IF order_stat_var_check([n |-> a.n, l |-> l, u |-> a.n, p |-> a.p])
            THEN Raise("ValueError", 1, ix)
            ELSE IF CovLt(EPTI(a.n, l, a.n, a.p), a.c) THEN ReturnNone(1, ix)
            ELSE Continue(<<1, CeilDiv(a.n, 2)>>, 1, ix)

\* The value order_stat_TI_k returns from the bracket k: int(k[1]) - 1.
TI_k_value(b) == b[2] - 1

\* One iteration of the loop of order_stat_TI_k.
TI_k_iter(a, b, e) ==
    IF b[2] - b[1] < 2 THEN Return(TI_k_value(b), e, idx)
    ELSE LET ktemp == Candidate(b[1], b[2])
             l == IF a.bound = "2-sided" THEN ktemp ELSE 0
             u == a.n + 1 - ktemp
             ix == <<a.n, l, u>>
         IN IF order_stat_var_check([n |-> a.n, l |-> l, u |-> u, p |-> a.p])
            THEN Raise("ValueError", e + 1, ix)
            ELSE IF CovGt(EPTI(a.n, l, u, a.p), a.c)
                 THEN Continue(<<ktemp, b[2]>>, e + 1, ix)
                 ELSE Continue(<<b[1], ktemp>>, e + 1, ix)

----------------------------------------------------------------------------
\* Percentile family.

\* nmin = np.ceil(max(k/P - 1, k/(1-P) - 1)).
NMin(k, P) == Max(CeilDiv(k * P[2], P[1]), CeilDiv(k * P[2], P[2] - P[1])) - 1

\* The (l, u) of the pre-checks (offset k - 1) at sample size n.
P_pre_lu(n, k, P, bound) ==
    LET iP == get_iP(n, P)
    IN IF bound = "2-sided" THEN <<iP[1] - k + 1, iP[3] + k - 1>>
       ELSE IF bound = "1-sided upper" THEN <<0, iP[3] + k - 1>>
       ELSE <<iP[1] - k + 1, n + 1>>

\* The (l, u) of the loops and of order_stat_P_c (offset k) at sample size n.
P_lu(n, k, P, bound) ==
    LET iP == get_iP(n, P)
    IN IF bound = "2-sided" THEN <<iP[1] - k, iP[3] + k>>
       ELSE IF bound = "1-sided upper" THEN <<0, iP[3] + k>>
       ELSE <<iP[1] - k, n + 1>>

\* The tests made before EPYP in the pre-check of order_stat_P_n.
P_n_outside(lu, nmax, bound) ==
    IF bound = "2-sided" THEN lu[1] <= 0 \/ lu[2] >= nmax + 1
    ELSE IF bound = "1-sided upper" THEN lu[2] >= nmax + 1
    ELSE lu[1] <= 0

\* order_stat_P_n up to the loop: validation and the pre-check at nmin.
P_n_entry(a) ==
    IF order_stat_var_check([p |-> a.p, k |-> a.k, c |-> a.c, nmax |-> a.nmax])
    THEN Raise("ValueError", 0, NoIdx)
    ELSE LET nmin == NMin(a.k, a.p)
         IN IF a.bound \notin PBounds THEN Continue(<<nmin, a.nmax>>, 0, NoIdx)
            ELSE LET lu == P_pre_lu(nmin, a.k, a.p, a.bound)
                     ix == <<nmin, lu[1], lu[2]>>
                 IN IF P_n_outside(lu, a.nmax, a.bound) THEN ReturnNone(0, NoIdx)
                    ELSE IF order_stat_var_check([n |-> nmin, l |-> lu[1], u |-> lu[2], p |-> a.p])
                    THEN Raise("ValueError", 1, ix)
                    ELSE IF CovLt(EPYP(nmin, lu[1], lu[2], a.p), a.c) THEN ReturnNone(1, ix)
                    ELSE Continue(<<nmin, a.nmax>>, 1, ix)

\* Returning the upper end of the bracket instead.
P_n_value_hi(b) == b[2]

\* The value order_stat_P_n returns from the bracket n: int(n[0]).
P_n_value(b) == b[1]

\* One iteration of the loop of order_stat_P_n.
P_n_iter(a, b, e) ==
    IF b[2] - b[1] < 2 THEN Return(P_n_value(b), e, idx)
    ELSE IF a.bound \notin PBounds THEN Raise("UnboundLocalError", e, idx)
    ELSE LET ntemp == Candidate(b[1], b[2])
             lu == P_lu(ntemp, a.k, a.p, a.bound)
             ix == <<ntemp, lu[1], lu[2]>>
         IN IF order_stat_var_check([n |-> ntemp, l |-> lu[1], u |-> lu[2], p |-> a.p])
            THEN Raise("ValueError", e + 1, ix)
            ELSE IF CovGt(EPYP(ntemp, lu[1], lu[2], a.p), a.c)
                 THEN Continue(<<ntemp, b[2]>>, e + 1, ix)
                 ELSE Continue(<<b[1], ntemp>>, e + 1, ix)

\* k[1] of order_stat_P_k: the largest offset the bound type allows.
KMax(n, P, bound) ==
    LET iP == get_iP(n, P)
    IN IF bound = "2-sided" THEN Min(iP[1], n + 1 - iP[3])
       ELSE IF bound = "1-sided upper" THEN n + 1 - iP[3]
       ELSE iP[1]

\* The tests made before EPYP in the pre-check of order_stat_P_k.
P_k_outside(lu, n, bound) ==
    IF bound = "2-sided" THEN lu[1] <= 0 \/ lu[2] >= n + 1
    ELSE IF bound = "1-sided upper" THEN lu[2] >= n + 1
    ELSE FALSE

\* order_stat_P_k up to the loop: validation and the pre-check at k[1].
P_k_entry(a) ==
    IF order_stat_var_check([n |-> a.n, p |-> a.p, c |-> a.c])
    THEN Raise("ValueError", 0, NoIdx)
    ELSE IF a.bound \notin PBounds THEN Raise("UnboundLocalError", 0, NoIdx)
    ELSE LET kmax == KMax(a.n, a.p, a.bound)
             lu == P_pre_lu(a.n, kmax, a.p, a.bound)
             ix == <<a.n, lu[1], lu[2]>>
         IN IF P_k_outside(lu, a.n, a.bound) THEN ReturnNone(0, NoIdx)
            ELSE IF order_stat_var_check([n |-> a.n, l |-> lu[1], u |-> lu[2], p |-> a.p])
            THEN Raise("ValueError", 1, ix)
            ELSE IF CovLt(EPYP(a.n, lu[1], lu[2], a.p), a.c) THEN ReturnNone(1, ix)
            ELSE Continue(<<1, kmax>>, 1, ix)

\* Returning the lower end of the bracket instead.
P_k_value_lo(b) == b[1]

\* The value order_stat_P_k returns from the bracket k: int(k[1]).
P_k_value(b) == b[2]

\* One iteration of the loop of order_stat_P_k.
P_k_iter(a, b, e) ==
    IF b[2] - b[1] < 2 THEN Return(P_k_value(b), e, idx)
    ELSE LET ktemp == Candidate(b[1], b[2])
             lu == P_lu(a.n, ktemp, a.p, a.bound)
             ix == <<a.n, lu[1], lu[2]>>
         IN IF order_stat_var_check([n |-> a.n, l |-> lu[1], u |-> lu[2], p |-> a.p])
            THEN Raise("ValueError", e + 1, ix)
            ELSE IF CovGt(EPYP(a.n, lu[1], lu[2], a.p), a.c)
                 THEN Continue(<<b[1], ktemp>>, e + 1, ix)
                 ELSE Continue(<<ktemp, b[2]>>, e + 1, ix)

\* order_stat_P_c: direct evaluation; the value is the coverage.
P_c_entry(a) ==
    IF order_stat_var_check([n |-> a.n, p |-> a.p, k |-> a.k])
    THEN Raise("ValueError", 0, NoIdx)
    ELSE IF a.bound \notin PBounds THEN Raise("UnboundLocalError", 0, NoIdx)
    ELSE LET lu == P_lu(a.n, a.k, a.p, a.bound)
             ix == <<a.n, lu[1], lu[2]>>
         IN IF lu[1] < 0 \/ lu[2] > a.n + 1 THEN Raise("ValueError", 0, NoIdx)
            ELSE IF order_stat_var_check([n |-> a.n, l |-> lu[1], u |-> lu[2], p |-> a.p])
            THEN Raise("ValueError", 1, ix)
            ELSE Return(EPYP(a.n, lu[1], lu[2], a.p), 1, ix)

----------------------------------------------------------------------------
\* Sigma / percentile conversions.  The normal quantile and CDF are library
\* primitives: a returned number is the primitive applied to its argument.

pct2sig_entry(a) ==
    IF a.p[1] <= 0 \/ a.p[1] >= a.p[2] THEN Raise("ValueError", 0, NoIdx)
    ELSE IF a.bound = "2-sided"
         THEN IF 2 * a.p[1] >= a.p[2]
              THEN Return(<<"norm.ppf", <<a.p[2] + a.p[1], 2 * a.p[2]>>>>, 0, NoIdx)
              ELSE Return(<<"norm.ppf", <<a.p[1], 2 * a.p[2]>>>>, 0, NoIdx)
    ELSE IF a.bound = "1-sided" THEN Return(<<"norm.ppf", a.p>>, 0, NoIdx)
    ELSE ReturnNone(0, NoIdx)

sig2pct_entry(a) ==
    IF a.bound = "2-sided" THEN Return(<<"1-(1-norm.cdf)*2", a.sig>>, 0, NoIdx)
    ELSE IF a.bound = "1-sided" THEN Return(<<"norm.cdf", a.sig>>, 0, NoIdx)
    ELSE Raise("UnboundLocalError", 0, NoIdx)

----------------------------------------------------------------------------
\* The state machine.

Init ==
    /\ pc = "idle"
    /\ fn = "none"
    /\ args = <<>>
    /\ br = NoBr
    /\ i = 0
    /\ result = Pending
    /\ evals = 0
    /\ idx = NoIdx

\* A call of f with arguments a whose code up to the loop has outcome o.
Enter(f, a, o) ==
    /\ pc = "idle"
    /\ fn' = f
    /\ args' = a
    /\ pc' = o.pc
    /\ br' = o.br
    /\ result' = o.result
    /\ evals' = o.evals
    /\ idx' = o.idx
    /\ i' = 0

\* Iteration i of the loop of f: outcome o, or the raise after maxsteps iterations.
Iterate(f, o) ==
    /\ pc = "loop"
    /\ fn = f
    /\ IF i >= maxsteps
       THEN /\ pc' = "done"
            /\ result' = [kind |-> "ConvergeError", val |-> 0]
            /\ UNCHANGED <<br, evals, idx, i>>
       ELSE /\ pc' = o.pc
            /\ br' = o.br
            /\ result' = o.result
            /\ evals' = o.evals
            /\ idx' = o.idx
            /\ i' = IF o.pc = "loop" THEN i + 1 ELSE i
    /\ UNCHANGED <<fn, args>>

order_stat_TI_n ==
    /\ pc = "idle"
    /\ \E k \in 0..MaxK, p \in PGrid, c \in CGrid, nmax \in 0..MaxNmax, bound \in BoundGrid :
           LET a == [k |-> k, p |-> p, c |-> c, nmax |-> nmax, bound |-> bound]
           IN Enter("order_stat_TI_n", a, TI_n_entry(a))

order_stat_TI_n_loop ==
    /\ pc = "loop"
    /\ Iterate("order_stat_TI_n", TI_n_iter(args, br, evals))

order_stat_TI_c ==
    /\ pc = "idle"
    /\ \E n \in 0..MaxN, k \in 0..MaxK, p \in PGrid, bound \in BoundGrid :
           LET a == [n |-> n, k |-> k, p |-> p, bound |-> bound]
           IN Enter("order_stat_TI_c", a, TI_c_entry(a))

order_stat_TI_p ==
    /\ pc = "idle"
    /\ \E n \in 0..MaxN, k \in 0..MaxK, c \in CGrid, ptol \in PtolGrid, bound \in BoundGrid :
           LET a == [n |-> n, k |-> k, c |-> c, ptol |-> ptol, bound |-> bound]
           IN Enter("order_stat_TI_p", a, TI_p_entry(a))

order_stat_TI_p_loop ==
    /\ pc = "loop"
    /\ Iterate("order_stat_TI_p", TI_p_iter(args, br, evals))

order_stat_TI_k ==
    /\ pc = "idle"
    /\ \E n \in 0..MaxN, p \in PGrid, c \in CGrid, bound \in BoundGrid :
           LET a == [n |-> n, p |-> p, c |-> c, bound |-> bound]
           IN Enter("order_stat_TI_k", a, TI_k_entry(a))

order_stat_TI_k_loop ==
    /\ pc = "loop"
    /\ Iterate("order_stat_TI_k", TI_k_iter(args, br, evals))

order_stat_P_n ==
    /\ pc = "idle"
    /\ \E k \in 0..MaxK, p \in PGrid, c \in CGrid, nmax \in 0..MaxNmax, bound \in BoundGrid :
           LET a == [k |-> k, p |-> p, c |-> c, nmax |-> nmax, bound |-> bound]
           IN Enter("order_stat_P_n", a, P_n_entry(a))

order_stat_P_n_loop ==
    /\ pc = "loop"
    /\ Iterate("order_stat_P_n", P_n_iter(args, br, evals))

order_stat_P_k ==
    /\ pc = "idle"
    /\ \E n \in 0..MaxN, p \in PGrid, c \in CGrid, bound \in BoundGrid :
           LET a == [n |-> n, p |-> p, c |-> c, bound |-> bound]
           IN Enter("order_stat_P_k", a, P_k_entry(a))

order_stat_P_k_loop ==
    /\ pc = "loop"
    /\ Iterate("order_stat_P_k", P_k_iter(args, br, evals))

order_stat_P_c ==
    /\ pc = "idle"
    /\ \E n \in 0..MaxN, k \in 0..MaxK, p \in PGrid, bound \in BoundGrid :
           LET a == [n |-> n, k |-> k, p |-> p, bound |-> bound]
           IN Enter("order_stat_P_c", a, P_c_entry(a))

pct2sig ==
    /\ pc = "idle"
    /\ \E p \in PGrid, bound \in BoundGrid :
           LET a == [p |-> p, bound |-> bound]
           IN Enter("pct2sig", a, pct2sig_entry(a))

sig2pct ==
    /\ pc = "idle"
    /\ \E sig \in SigGrid, bound \in BoundGrid :
           LET a == [sig |-> sig, bound |-> bound]
           IN Enter("sig2pct", a, sig2pct_entry(a))

Next ==
    \/ order_stat_TI_n
    \/ order_stat_TI_n_loop
    \/ order_stat_TI_c
    \/ order_stat_TI_p
    \/ order_stat_TI_p_loop
    \/ order_stat_TI_k
    \/ order_stat_TI_k_loop
    \/ order_stat_P_n
    \/ order_stat_P_n_loop
    \/ order_stat_P_k
    \/ order_stat_P_k_loop
    \/ order_stat_P_c
    \/ pct2sig
    \/ sig2pct

Spec == Init /\ [][Next]_vars

----------------------------------------------------------------------------
\* Vocabulary of the properties.

Returned(f) == pc = "done" /\ fn = f /\ result.kind = "number"
Finished(f) == pc = "done" /\ fn = f

\* The tolerance-interval indices for offset k at sample size n, and whether
\* the validator accepts them.
TI_l(bound, k) == IF bound = "2-sided" THEN k ELSE 0
TI_usable(n, k, p, bound) ==
    ~order_stat_var_check([n |-> n, l |-> TI_l(bound, k), u |-> n + 1 - k, p |-> p])
\* Offset k at sample size n reaches the confidence c (tolerance interval).
TI_reaches(n, k, p, c, bound) ==
    /\ TI_usable(n, k, p, bound)
    /\ CovGe(EPTI(n, TI_l(bound, k), n + 1 - k, p), c)

\* Offset k at sample size n reaches the confidence c (percentile interval,
\* indices as order_stat_P_c derives them).
P_usable(n, k, P, bound) ==
    LET lu == P_lu(n, k, P, bound)
    IN ~order_stat_var_check([n |-> n, l |-> lu[1], u |-> lu[2], p |-> P])
P_reaches(n, k, P, c, bound) ==
    LET lu == P_lu(n, k, P, bound)
    IN P_usable(n, k, P, bound) /\ CovGe(EPYP(n, lu[1], lu[2], P), c)

\* C1: whenever order_stat_TI_n returns a number n*, the coverage at n* reaches
\* c and n* is minimal: n* - 1 is not a usable sample size for k, or its
\* coverage is below c.
C1_MinimalN ==
    Returned("order_stat_TI_n") =>
        /\ TI_reaches(result.val, args.k, args.p, args.c, args.bound)
        /\ ~TI_reaches(result.val - 1, args.k, args.p, args.c, args.bound)

\* The part of C1 the code keeps: the coverage at the returned n* reaches c.
C1_CoverageReached ==
    Returned("order_stat_TI_n") =>
        TI_reaches(result.val, args.k, args.p, args.c, args.bound)

Solvers ==
    {"order_stat_TI_n", "order_stat_TI_p", "order_stat_TI_k", "order_stat_TI_c",
     "order_stat_P_n", "order_stat_P_k", "order_stat_P_c"}
\* The solvers that search over integers, and all that have a bisection loop.
SearchSolvers == {"order_stat_TI_n", "order_stat_TI_k", "order_stat_P_n", "order_stat_P_k"}
LoopSolvers == SearchSolvers \cup {"order_stat_TI_p"}
TIFamily == {"order_stat_TI_n", "order_stat_TI_p", "order_stat_TI_k", "order_stat_TI_c"}
PFamily == {"order_stat_P_n", "order_stat_P_k", "order_stat_P_c"}

\* The arguments of the current solver call pass the validation of its first line.
ArgsPassCheck ==
    /\ fn \in Solvers
    /\ ~order_stat_var_check([x \in DOMAIN args \cap {"n", "p", "k", "c", "nmax"} |-> args[x]])

\* The bound selector of the current call is one its function recognises.
BoundKnown ==
    IF fn \in PFamily THEN args.bound \in PBounds
    ELSE fn \in TIFamily \cup {"pct2sig", "sig2pct"} /\ args.bound \in TIBounds

\* The arguments of a searching solver pass its initial validation and name a
\* bound type of its family.
SearchArgsValid == fn \in SearchSolvers /\ ArgsPassCheck /\ BoundKnown

\* No candidate of the solver's search range reaches the confidence.
NoCandidate ==
    CASE fn = "order_stat_TI_n" ->
            \A n \in 1..args.nmax : ~TI_reaches(n, args.k, args.p, args.c, args.bound)
      [] fn = "order_stat_TI_k" ->
            \A k \in 1..CeilDiv(args.n, 2) : ~TI_reaches(args.n, k, args.p, args.c, args.bound)
      [] fn = "order_stat_P_n" ->
            \A n \in NMin(args.k, args.p)..args.nmax :
                ~P_reaches(n, args.k, args.p, args.c, args.bound)
      [] fn = "order_stat_P_k" ->
            \A k \in 1..KMax(args.n, args.p, args.bound) :
                ~P_reaches(args.n, k, args.p, args.c, args.bound)
      [] OTHER -> FALSE

\* C2: a searching solver called with valid inputs for which no candidate of
\* its search range reaches coverage >= c returns None: it neither raises
\* nor returns a number.
C2_NotFoundIsNone ==
    (pc = "done" /\ SearchArgsValid /\ NoCandidate) => result.kind = "None"

\* C3: whenever order_stat_TI_k returns a number k*, k* is the maximum k in
\* [1, ceil(n/2)] whose coverage reaches c.
C3_MaximalK ==
    Returned("order_stat_TI_k") =>
        /\ result.val \in 1..CeilDiv(args.n, 2)
        /\ TI_reaches(args.n, result.val, args.p, args.c, args.bound)
        /\ \A k \in (result.val + 1)..CeilDiv(args.n, 2) :
               ~TI_reaches(args.n, k, args.p, args.c, args.bound)

\* The coverage of the pre-check of the percentile solvers (offset k - 1) at
\* sample size n is computable and below c / reaches c.
P_pre_usable(n, k, P, bound) ==
    LET lu == P_pre_lu(n, k, P, bound)
    IN ~order_stat_var_check([n |-> n, l |-> lu[1], u |-> lu[2], p |-> P])
P_pre_below(n, k, P, c, bound) ==
    LET lu == P_pre_lu(n, k, P, bound)
    IN P_pre_usable(n, k, P, bound) /\ CovLt(EPYP(n, lu[1], lu[2], P), c)
\* The loop's test EPYP > c for offset k at sample size n.
P_above(n, k, P, c, bound) ==
    LET lu == P_lu(n, k, P, bound)
    IN CovGt(EPYP(n, lu[1], lu[2], P), c)

QGrid == {<<j, 8>> : j \in 1..7}
\* q > p + 2 * ptol.
AboveTol(q, p, ptol) ==
    q[1] * p[2] * ptol[2] > q[2] * (p[1] * ptol[2] + 2 * ptol[1] * p[2])
\* Offset k at sample size n reaches c for the proportion q.
TI_p_reaches(n, k, q, c, bound) ==
    /\ TI_usable(n, k, q, bound)
    /\ CovGe(EPTI(n, TI_l(bound, k), n + 1 - k, q), c)

\* C6: a number p* returned by order_stat_TI_p lies in (0, 1), its coverage
\* reaches c, and every p > p* + 2 * ptol has coverage below c.
C6_MaximalP ==
    (Returned("order_stat_TI_p") /\ BoundKnown) =>
        /\ 0 < result.val[1] /\ result.val[1] < result.val[2]
        /\ TI_p_reaches(args.n, args.k, result.val, args.c, args.bound)
        /\ \A q \in QGrid :
               AboveTol(q, result.val, args.ptol) =>
                   ~TI_p_reaches(args.n, args.k, q, args.c, args.bound)

\* One of the parameters of the call is p = 0, p = 1, c = 0, c = 1, n = 0 or k = 0.
InvalidParam(a) ==
    \/ ("p" \in DOMAIN a /\ (a.p[1] = 0 \/ a.p[1] = a.p[2]))
    \/ ("c" \in DOMAIN a /\ (a.c[1] = 0 \/ a.c[1] = a.c[2]))
    \/ ("n" \in DOMAIN a /\ a.n = 0)
    \/ ("k" \in DOMAIN a /\ a.k = 0)

\* C7: a solver called with p = 0, p = 1, c = 0, c = 1, n = 0 or k = 0 raises
\* ValueError before any coverage evaluation or search step and returns nothing.
C7_InvalidInputRaises ==
    (pc # "idle" /\ fn \in Solvers /\ InvalidParam(args)) =>
        /\ pc = "done"
        /\ result.kind = "ValueError"
        /\ evals = 0
        /\ i = 0
        /\ idx = NoIdx
        /\ br = NoBr

\* order_stat_P_n was called with k = 0 and otherwise valid arguments, and raised.
C7_Witness ==
    /\ Finished("order_stat_P_n")
    /\ args.k = 0
    /\ ~order_stat_var_check([p |-> args.p, c |-> args.c, nmax |-> args.nmax])
    /\ result.kind = "ValueError"

\* C8: a call with a bound selector its function does not recognise raises
\* ValueError; it returns neither a number nor None.
C8_BadBoundRaises ==
    (pc = "done" /\ ~BoundKnown) => result.kind = "ValueError"

\* C9: in a solver call whose arguments pass the initial validation, every
\* index pair passed to EPTI or EPYP satisfies 0 <= l <= u <= n + 1, and the
\* validator of the coverage primitives never raises.
C9_IndexPairValid ==
    (pc # "idle" /\ fn \in LoopSolvers /\ ArgsPassCheck /\ idx # NoIdx) =>
        /\ 0 <= idx[2]
        /\ idx[2] <= idx[3]
        /\ idx[3] <= idx[1] + 1
        /\ result.kind # "ValueError"

\* An iteration of an integer bisection loop that does not return keeps a
\* candidate strictly inside the bracket and makes it the new lower or upper end.
Shrinks ==
    LET cand == Candidate(br[1], br[2])
    IN /\ pc' = "loop"
       /\ br[1] < cand /\ cand < br[2]
       /\ br' \in {<<cand, br[2]>>, <<br[1], cand>>}
       /\ i' = i + 1

\* C10: every iteration of an integer bisection loop on valid inputs either
\* strictly shrinks the bracket or returns a value, within maxsteps
\* iterations; the loop never ends in an error.
C10_BisectionReturns ==
    [][(pc = "loop" /\ SearchArgsValid) =>
           /\ i < maxsteps
           /\ Shrinks \/ (pc' = "done" /\ result'.kind = "number")]_vars

\* The part of C10 the code keeps: an iteration shrinks the bracket or ends
\* the call, and the step ceiling is never reached.
C10_ShrinksOrEnds ==
    [][(pc = "loop" /\ SearchArgsValid) =>
           /\ i < maxsteps
           /\ Shrinks \/ (pc' = "done" /\ result'.kind \in {"number", "ValueError"})]_vars

\* C11: whenever order_stat_TI_k or order_stat_P_k returns a number for
\* validated inputs, that number is an offset k >= 1, one the validator
\* accepts (order_stat_var_check(k = k*) does not raise); the solvers never
\* return 0 or a negative k.
C11_ReturnedKPositive ==
    ((Returned("order_stat_TI_k") \/ Returned("order_stat_P_k")) /\ SearchArgsValid) =>
        /\ result.val >= 1
        /\ ~order_stat_var_check([k |-> result.val])

\* The part of C11 the code keeps: a returned k is never negative.
C11_ReturnedKNotNegative ==
    ((Returned("order_stat_TI_k") \/ Returned("order_stat_P_k")) /\ SearchArgsValid) =>
        result.val >= 0

====
